---- MODULE Spec2Model ----
(***************************************************************************)
(* Model of 28chain.py: a single-node ticket ledger.  Transactions are     *)
(* buffered in Blockchain.pending_transactions, sealed into blocks by      *)
(* proof-of-work, and a ticket registry (Blockchain.tickets) is updated    *)
(* when a request is accepted.                                             *)
(*                                                                         *)
(* Python lists are objects: a Block keeps a reference to the list it was  *)
(* built from.  The model keeps them in `heap` (list reference -> content) *)
(* and stores references in `pending_transactions` and in each block's     *)
(* `transactions` field, so aliasing between the buffer and a block is     *)
(* visible.                                                                *)
(***************************************************************************)
EXTENDS Integers, Sequences, FiniteSets, TLC

\* ---------------------------------------------------------------- bounds
MaxTickets == 2      \* number of distinct ticket ids
MaxTx      == 3      \* total number of accepted transactions
MaxTime    == 0      \* largest value of the wall clock, counted from start-up
MaxNonce   == 15      \* nonces a stepwise proof-of-work search may try after 0
DigestLen  == 3      \* hex characters of a digest (64 for SHA-256)

\* ------------------------------------------------------ program constants
difficulty == 2

\* ------------------------------------------------------------ input sets
TicketIds == 1..MaxTickets
Owners    == {"alice", "bob"}
Issuees   == {"alice"}          \* owners named in issue requests
Events    == {"concert"}
Prices    == {10}
None      == "None"
Threads   == {"w1", "w2"}       \* request threads of the server (app.run)

\* a thread that is running no handler
Idle == [pc |-> "idle"]

VARIABLES
    chain,                 \* Blockchain.chain: sequence of Block records
    pending_transactions,  \* Blockchain.pending_transactions: a list reference
    tickets,               \* Blockchain.tickets: ticket id -> [owner, status]
    heap,                  \* list reference -> sequence of Transaction
    uuids,                 \* values uuid.uuid4() has returned so far
    clock,                 \* last value returned by time.time()
    response,              \* the request last handled and what it returned
    calls                  \* per server thread: the handler it is running

vars == <<chain, pending_transactions, tickets, heap, uuids, clock, response,
          calls>>

\* ------------------------------------------------------------- utilities
RECURSIVE Pow16(_)
Pow16(n) == IF n = 0 THEN 1 ELSE 16 * Pow16(n - 1)

\* the number of distinct digests, and the weight of each hex character
DigestSpace == Pow16(DigestLen)
HexWeight   == [i \in 1..DigestLen |-> Pow16(i - 1)]

RECURSIVE Flatten(_)
Flatten(ss) == IF ss = <<>> THEN <<>> ELSE Head(ss) \o Flatten(Tail(ss))

RECURSIVE SumLen(_)
SumLen(ss) == IF ss = <<>> THEN 0 ELSE Len(Head(ss)) + SumLen(Tail(ss))

\* time.time(): a reading never goes back and may repeat the previous one
time_time(c) == {t \in c..(c + 1) : t <= MaxTime}

\* mutant: the generator returns the same value again
uuid4_repeat(used) == {t \in TicketIds : \A u \in TicketIds : t <= u}

\* uuid.uuid4(): a value never returned before.  The ids are opaque, so the
\* model names them in the order they are drawn.
uuid4(used) == {t \in TicketIds \ used : \A u \in TicketIds \ used : t <= u}

\* str.encode(): the numbers a string contributes to the hashed byte stream
encode == [alice |-> 1, bob |-> 2, concert |-> 3, issue |-> 4,
           transfer |-> 5, redeem |-> 6, None |-> 0]

\* ----------------------------------------------------------- Transaction
Transaction(tx_type, data, sender_pubkey, signature, now) ==
    [tx_type |-> tx_type, data |-> data, sender_pubkey |-> sender_pubkey,
     signature |-> signature, timestamp |-> now]

to_dict(t) ==
    [tx_type |-> t.tx_type, data |-> t.data, sender_pubkey |-> t.sender_pubkey,
     signature |-> t.signature, timestamp |-> t.timestamp]

\* data.get("ticket_id") == ticket_id on a payload
data_ticket_id_is(d, ticket_id) == "ticket_id" \in DOMAIN d /\ d.ticket_id = ticket_id

\* json.dumps of a transaction record, as the stream of numbers hashed
dumps_data(tx_type, d) ==
    CASE tx_type = "issue"    -> <<encode[d.event], encode[d.owner], d.price, d.ticket_id>>
      [] tx_type = "transfer" -> <<encode[d.new_owner], d.ticket_id>>
      [] tx_type = "redeem"   -> <<d.ticket_id>>

dumps_tx(d) ==
    <<encode[d.tx_type]>> \o dumps_data(d.tx_type, d.data)
        \o <<encode[d.sender_pubkey], encode[d.signature], d.timestamp>>

\* ----------------------------------------------------------------- hashing
\* hashlib.sha256: absorbs the stream one number at a time
RECURSIVE sha256(_, _)
sha256(st, bytes) ==
    IF bytes = <<>> THEN st
    ELSE sha256((st * 31 + Head(bytes) + 1) % DigestSpace, Tail(bytes))

\* hexdigest(): DigestLen hex characters, first character first
hexdigest(st) == [i \in 1..DigestLen |-> (st \div HexWeight[i]) % 16]

\* str.startswith("0" * n)
startswith_zeros(digest, n) == \A i \in 1..n : i <= Len(digest) /\ digest[i] = 0

\* ------------------------------------------------------------------ Block
Block(index, transactions, prev_hash, now) ==
    [index |-> index, transactions |-> transactions, timestamp |-> now,
     prev_hash |-> prev_hash, nonce |-> 0]

\* json.dumps of the block's fields up to prev_hash; the nonce follows it
block_string(h, block) ==
    <<block.index>>
        \o Flatten([i \in 1..Len(h[block.transactions]) |->
                        dumps_tx(to_dict(h[block.transactions][i]))])
        \o <<block.timestamp>> \o block.prev_hash

compute_hash_at(prefix, nonce) == hexdigest(sha256(prefix, <<nonce>>))

compute_hash(h, block) ==
    compute_hash_at(sha256(0, block_string(h, block)), block.nonce)

\* ------------------------------------------------------------- Blockchain
create_genesis_block(now) ==
    LET genesis_block == Block(0, 1, <<0>>, now)
    IN  [hash |-> compute_hash(<<<<>>>>, genesis_block)] @@ genesis_block

\* mutant: the transaction is put at the front of the buffer (insert(0, ...))
add_transaction_front(h, p, transaction) == [h EXCEPT ![p] = <<transaction>> \o @]

add_transaction(h, p, transaction) == [h EXCEPT ![p] = Append(@, transaction)]

\* the while loop of proof_of_work: the first nonce, counting up from `nonce`,
\* whose digest passes the test.  The loop is unrolled sixteen nonces at a
\* time to keep the recursion shallow.
RECURSIVE pow_while(_, _)
pow_while(prefix, nonce) ==
    LET hits == {n \in nonce..(nonce + 15) :
                    startswith_zeros(compute_hash_at(prefix, n), difficulty)}
    IN  IF hits # {}
        THEN CHOOSE n \in hits : \A m \in hits : n <= m
        ELSE pow_while(prefix, nonce + 16)

\* mutant: the digest is tested once, with `if` in place of `while`
proof_of_work_no_search(h, block) ==
    LET prefix == sha256(0, block_string(h, block))
    IN  [block |-> [block EXCEPT !.nonce = 0],
         computed_hash |-> compute_hash_at(prefix, 0)]

\* mutant: the nonce is incremented once more after the digest passes
proof_of_work_extra_increment(h, block) ==
    LET prefix == sha256(0, block_string(h, block))
        nonce  == pow_while(prefix, 0)
    IN  [block |-> [block EXCEPT !.nonce = nonce + 1],
         computed_hash |-> compute_hash_at(prefix, nonce)]

\* the block with its final nonce, and the digest the search returns
proof_of_work(h, block) ==
    LET prefix == sha256(0, block_string(h, block))
        nonce  == pow_while(prefix, 0)
    IN  [block |-> [block EXCEPT !.nonce = nonce],
         computed_hash |-> compute_hash_at(prefix, nonce)]

\* mutant: the buffer is not reset after the block is appended
Blockchain_mine_keep_pending(c, h, p, now) ==
    IF h[p] = <<>>
    THEN [mined |-> FALSE, chain |-> c, heap |-> h, pending_transactions |-> p]
    ELSE LET new_block == Block(Len(c), p, compute_hash(h, c[Len(c)]), now)
             proof     == proof_of_work(h, new_block)
             sealed    == [hash |-> proof.computed_hash] @@ proof.block
         IN  [mined |-> TRUE, block |-> sealed,
              chain |-> Append(c, sealed),
              heap |-> h,
              pending_transactions |-> p]

\* mutant: no test for an empty buffer
Blockchain_mine_no_guard(c, h, p, now) ==
    LET new_block == Block(Len(c), p, compute_hash(h, c[Len(c)]), now)
        proof     == proof_of_work(h, new_block)
        sealed    == [hash |-> proof.computed_hash] @@ proof.block
    IN  [mined |-> TRUE, block |-> sealed,
         chain |-> Append(c, sealed),
         heap |-> Append(h, <<>>),
         pending_transactions |-> Len(h) + 1]

\* mutant: the buffer is emptied in place (list.clear()) instead of rebound
Blockchain_mine_clear(c, h, p, now) ==
    IF h[p] = <<>>
    THEN [mined |-> FALSE, chain |-> c, heap |-> h, pending_transactions |-> p]
    ELSE LET new_block == Block(Len(c), p, compute_hash(h, c[Len(c)]), now)
             proof     == proof_of_work(h, new_block)
             sealed    == [hash |-> proof.computed_hash] @@ proof.block
         IN  [mined |-> TRUE, block |-> sealed,
              chain |-> Append(c, sealed),
              heap |-> [h EXCEPT ![p] = <<>>],
              pending_transactions |-> p]

\* mutant: the new block links to chain[0] instead of chain[-1]
Blockchain_mine_link_first(c, h, p, now) ==
    IF h[p] = <<>>
    THEN [mined |-> FALSE, chain |-> c, heap |-> h, pending_transactions |-> p]
    ELSE LET new_block == Block(Len(c), p, compute_hash(h, c[1]), now)
             proof     == proof_of_work(h, new_block)
             sealed    == [hash |-> proof.computed_hash] @@ proof.block
         IN  [mined |-> TRUE, block |-> sealed,
              chain |-> Append(c, sealed),
              heap |-> Append(h, <<>>),
              pending_transactions |-> Len(h) + 1]

\* mutant: the index of the new block is counted from one
Blockchain_mine_index_from_one(c, h, p, now) ==
    IF h[p] = <<>>
    THEN [mined |-> FALSE, chain |-> c, heap |-> h, pending_transactions |-> p]
    ELSE LET new_block == Block(Len(c) + 1, p, compute_hash(h, c[Len(c)]), now)
             proof     == proof_of_work(h, new_block)
             sealed    == [hash |-> proof.computed_hash] @@ proof.block
         IN  [mined |-> TRUE, block |-> sealed,
              chain |-> Append(c, sealed),
              heap |-> Append(h, <<>>),
              pending_transactions |-> Len(h) + 1]

\* Blockchain.mine: what it returns and the chain, heap and buffer it leaves
Blockchain_mine(c, h, p, now) ==
    IF h[p] = <<>>
    THEN [mined |-> FALSE, chain |-> c, heap |-> h, pending_transactions |-> p]
    ELSE LET new_block == Block(Len(c), p, compute_hash(h, c[Len(c)]), now)
             proof     == proof_of_work(h, new_block)
             sealed    == [hash |-> proof.computed_hash] @@ proof.block
         IN  [mined |-> TRUE, block |-> sealed,
              chain |-> Append(c, sealed),
              heap |-> Append(h, <<>>),
              pending_transactions |-> Len(h) + 1]

verify_ticket(tk, ticket_id) ==
    IF ticket_id \in DOMAIN tk THEN <<tk[ticket_id]>> ELSE <<>>

\* mutant: the registry is replaced by a dict with the one entry
record_ticket_replace(tk, ticket_id, owner, status) ==
    [k \in {ticket_id} |-> [owner |-> owner, status |-> status]]

record_ticket(tk, ticket_id, owner, status) ==
    [k \in DOMAIN tk \cup {ticket_id} |->
        IF k = ticket_id THEN [owner |-> owner, status |-> status] ELSE tk[k]]

\* transactions accepted so far, in the buffer or in a block
Accepted == SumLen(heap)

\* ------------------------------------------------------------------- Init
Init ==
    /\ clock = 0
    /\ chain = <<create_genesis_block(0)>>
    /\ heap = <<<<>>, <<>>>>
    /\ pending_transactions = 2
    /\ tickets = <<>>
    /\ uuids = {}
    /\ response = [op |-> "init", args |-> <<>>, code |-> 0, body |-> <<>>]
    /\ calls = [t \in Threads |-> Idle]

\* --------------------------------------------------------------- handlers
get_chain ==
    /\ response' =
         [op |-> "get_chain", args |-> <<>>, code |-> 200,
          body |-> [i \in 1..Len(chain) |->
                      [index |-> chain[i].index,
                       transactions |-> [j \in 1..Len(heap[chain[i].transactions]) |->
                                           to_dict(heap[chain[i].transactions][j])],
                       timestamp |-> chain[i].timestamp,
                       prev_hash |-> chain[i].prev_hash,
                       hash |-> compute_hash(heap, chain[i])]]]
    /\ UNCHANGED <<chain, pending_transactions, tickets, heap, uuids, clock>>

mine(now) ==
    \E r \in {Blockchain_mine(chain, heap, pending_transactions, now)} :
        /\ chain' = r.chain
        /\ heap' = r.heap
        /\ pending_transactions' = r.pending_transactions
        /\ clock' = IF r.mined THEN now ELSE clock
        /\ response' =
             IF ~r.mined
             THEN [op |-> "mine", args |-> <<>>, code |-> 200,
                   body |-> [message |-> "No transactions to mine"]]
             ELSE [op |-> "mine", args |-> <<>>, code |-> 200,
                   body |-> [index |-> r.block.index,
                             transactions |-> [j \in 1..Len(r.heap[r.block.transactions]) |->
                                                 to_dict(r.heap[r.block.transactions][j])],
                             hash |-> r.block.hash]]
        /\ UNCHANGED <<tickets, uuids>>

\* mutant: the registry is not written when the ticket is issued
issue_ticket_no_record(data, now) ==
    /\ Accepted < MaxTx
    /\ \E ticket_id \in uuid4(uuids) :
         LET tx == Transaction("issue",
                               [ticket_id |-> ticket_id, event |-> data.event,
                                owner |-> data.owner, price |-> data.price],
                               None, None, now)
         IN  /\ uuids' = uuids \cup {ticket_id}
             /\ heap' = add_transaction(heap, pending_transactions, tx)
             /\ response' = [op |-> "issue", args |-> data, code |-> 201,
                             body |-> [message |-> "Ticket issued",
                                       ticket_id |-> ticket_id]]
    /\ clock' = now
    /\ UNCHANGED <<chain, pending_transactions, tickets>>

issue_ticket(data, now) ==
    /\ Accepted < MaxTx
    /\ \E ticket_id \in uuid4(uuids) :
         LET tx == Transaction("issue",
                               [ticket_id |-> ticket_id, event |-> data.event,
                                owner |-> data.owner, price |-> data.price],
                               None, None, now)
         IN  /\ uuids' = uuids \cup {ticket_id}
             /\ heap' = add_transaction(heap, pending_transactions, tx)
             /\ tickets' = record_ticket(tickets, ticket_id, data.owner, "valid")
             /\ response' = [op |-> "issue", args |-> data, code |-> 201,
                             body |-> [message |-> "Ticket issued",
                                       ticket_id |-> ticket_id]]
    /\ clock' = now
    /\ UNCHANGED <<chain, pending_transactions>>

\* mutant: the status of the ticket is not tested
transfer_ticket_any_status(data, now) ==
    LET ticket == verify_ticket(tickets, data.ticket_id)
    IN  IF ticket = <<>>
        THEN /\ response' = [op |-> "transfer", args |-> data, code |-> 400,
                             body |-> [error |-> "Invalid ticket"]]
             /\ UNCHANGED <<chain, pending_transactions, tickets, heap, uuids, clock>>
        ELSE LET tx == Transaction("transfer",
                                   [ticket_id |-> data.ticket_id,
                                    new_owner |-> data.new_owner],
                                   None, None, now)
             IN  /\ Accepted < MaxTx
                 /\ heap' = add_transaction(heap, pending_transactions, tx)
                 /\ tickets' = record_ticket(tickets, data.ticket_id,
                                             data.new_owner, "valid")
                 /\ clock' = now
                 /\ response' = [op |-> "transfer", args |-> data, code |-> 200,
                                 body |-> [message |-> "Ticket transferred"]]
                 /\ UNCHANGED <<chain, pending_transactions, uuids>>

\* mutant: the registry keeps the previous owner
transfer_ticket_keep_owner(data, now) ==
    LET ticket == verify_ticket(tickets, data.ticket_id)
    IN  IF ticket = <<>> \/ ticket[1].status # "valid"
        THEN /\ response' = [op |-> "transfer", args |-> data, code |-> 400,
                             body |-> [error |-> "Invalid ticket"]]
             /\ UNCHANGED <<chain, pending_transactions, tickets, heap, uuids, clock>>
        ELSE LET tx == Transaction("transfer",
                                   [ticket_id |-> data.ticket_id,
                                    new_owner |-> data.new_owner],
                                   None, None, now)
             IN  /\ Accepted < MaxTx
                 /\ heap' = add_transaction(heap, pending_transactions, tx)
                 /\ tickets' = record_ticket(tickets, data.ticket_id,
                                             ticket[1].owner, "valid")
                 /\ clock' = now
                 /\ response' = [op |-> "transfer", args |-> data, code |-> 200,
                                 body |-> [message |-> "Ticket transferred"]]
                 /\ UNCHANGED <<chain, pending_transactions, uuids>>

transfer_ticket(data, now) ==
    LET ticket == verify_ticket(tickets, data.ticket_id)
    IN  IF ticket = <<>> \/ ticket[1].status # "valid"
        THEN /\ response' = [op |-> "transfer", args |-> data, code |-> 400,
                             body |-> [error |-> "Invalid ticket"]]
             /\ UNCHANGED <<chain, pending_transactions, tickets, heap, uuids, clock>>
        ELSE LET tx == Transaction("transfer",
                                   [ticket_id |-> data.ticket_id,
                                    new_owner |-> data.new_owner],
                                   None, None, now)
             IN  /\ Accepted < MaxTx
                 /\ heap' = add_transaction(heap, pending_transactions, tx)
                 /\ tickets' = record_ticket(tickets, data.ticket_id,
                                             data.new_owner, "valid")
                 /\ clock' = now
                 /\ response' = [op |-> "transfer", args |-> data, code |-> 200,
                                 body |-> [message |-> "Ticket transferred"]]
                 /\ UNCHANGED <<chain, pending_transactions, uuids>>

\* mutant: the status of the ticket is not tested
redeem_ticket_any_status(data, now) ==
    LET ticket == verify_ticket(tickets, data.ticket_id)
    IN  IF ticket = <<>>
        THEN /\ response' = [op |-> "redeem", args |-> data, code |-> 400,
                             body |-> [error |-> "Invalid or already redeemed ticket"]]
             /\ UNCHANGED <<chain, pending_transactions, tickets, heap, uuids, clock>>
        ELSE LET tx == Transaction("redeem", [ticket_id |-> data.ticket_id],
                                   None, None, now)
             IN  /\ Accepted < MaxTx
                 /\ heap' = add_transaction(heap, pending_transactions, tx)
                 /\ tickets' = record_ticket(tickets, data.ticket_id,
                                             ticket[1].owner, "redeemed")
                 /\ clock' = now
                 /\ response' = [op |-> "redeem", args |-> data, code |-> 200,
                                 body |-> [message |-> "Ticket redeemed"]]
                 /\ UNCHANGED <<chain, pending_transactions, uuids>>

\* mutant: record_ticket is called with its default status
redeem_ticket_default_status(data, now) ==
    LET ticket == verify_ticket(tickets, data.ticket_id)
    IN  IF ticket = <<>> \/ ticket[1].status # "valid"
        THEN /\ response' = [op |-> "redeem", args |-> data, code |-> 400,
                             body |-> [error |-> "Invalid or already redeemed ticket"]]
             /\ UNCHANGED <<chain, pending_transactions, tickets, heap, uuids, clock>>
        ELSE LET tx == Transaction("redeem", [ticket_id |-> data.ticket_id],
                                   None, None, now)
             IN  /\ Accepted < MaxTx
                 /\ heap' = add_transaction(heap, pending_transactions, tx)
                 /\ tickets' = record_ticket(tickets, data.ticket_id,
                                             ticket[1].owner, "valid")
                 /\ clock' = now
                 /\ response' = [op |-> "redeem", args |-> data, code |-> 200,
                                 body |-> [message |-> "Ticket redeemed"]]
                 /\ UNCHANGED <<chain, pending_transactions, uuids>>

redeem_ticket(data, now) ==
    LET ticket == verify_ticket(tickets, data.ticket_id)
    IN  IF ticket = <<>> \/ ticket[1].status # "valid"
        THEN /\ response' = [op |-> "redeem", args |-> data, code |-> 400,
                             body |-> [error |-> "Invalid or already redeemed ticket"]]
             /\ UNCHANGED <<chain, pending_transactions, tickets, heap, uuids, clock>>
        ELSE LET tx == Transaction("redeem", [ticket_id |-> data.ticket_id],
                                   None, None, now)
             IN  /\ Accepted < MaxTx
                 /\ heap' = add_transaction(heap, pending_transactions, tx)
                 /\ tickets' = record_ticket(tickets, data.ticket_id,
                                             ticket[1].owner, "redeemed")
                 /\ clock' = now
                 /\ response' = [op |-> "redeem", args |-> data, code |-> 200,
                                 body |-> [message |-> "Ticket redeemed"]]
                 /\ UNCHANGED <<chain, pending_transactions, uuids>>

\* mutant: the pending buffer is searched as well
ticket_history_with_pending(ticket_id) ==
    LET history == Flatten([i \in 1..Len(chain) |->
                      SelectSeq([j \in 1..Len(heap[chain[i].transactions]) |->
                                    to_dict(heap[chain[i].transactions][j])],
                                LAMBDA t : data_ticket_id_is(t.data, ticket_id))])
                   \o SelectSeq([j \in 1..Len(heap[pending_transactions]) |->
                                    to_dict(heap[pending_transactions][j])],
                                LAMBDA t : data_ticket_id_is(t.data, ticket_id))
    IN  /\ response' = [op |-> "ticket_history", args |-> [ticket_id |-> ticket_id],
                        code |-> 200, body |-> history]
        /\ UNCHANGED <<chain, pending_transactions, tickets, heap, uuids, clock>>

\* mutant: each match is put at the front of the result (insert(0, ...))
ticket_history_insert_front(ticket_id) ==
    LET history == Flatten([i \in 1..Len(chain) |->
                      LET b == chain[Len(chain) + 1 - i]
                          m == SelectSeq([j \in 1..Len(heap[b.transactions]) |->
                                            to_dict(heap[b.transactions][j])],
                                         LAMBDA t : data_ticket_id_is(t.data, ticket_id))
                      IN  [j \in 1..Len(m) |-> m[Len(m) + 1 - j]]])
    IN  /\ response' = [op |-> "ticket_history", args |-> [ticket_id |-> ticket_id],
                        code |-> 200, body |-> history]
        /\ UNCHANGED <<chain, pending_transactions, tickets, heap, uuids, clock>>

ticket_history(ticket_id) ==
    LET history == Flatten([i \in 1..Len(chain) |->
                      SelectSeq([j \in 1..Len(heap[chain[i].transactions]) |->
                                    to_dict(heap[chain[i].transactions][j])],
                                LAMBDA t : data_ticket_id_is(t.data, ticket_id))])
    IN  /\ response' = [op |-> "ticket_history", args |-> [ticket_id |-> ticket_id],
                        code |-> 200, body |-> history]
        /\ UNCHANGED <<chain, pending_transactions, tickets, heap, uuids, clock>>

verify(ticket_id) ==
    LET ticket == verify_ticket(tickets, ticket_id)
    IN  /\ response' =
             IF ticket = <<>>
             THEN [op |-> "verify", args |-> [ticket_id |-> ticket_id], code |-> 404,
                   body |-> [valid |-> FALSE, message |-> "Ticket not found"]]
             ELSE [op |-> "verify", args |-> [ticket_id |-> ticket_id], code |-> 200,
                   body |-> [valid |-> ticket[1].status = "valid",
                             ticket |-> ticket[1]]]
        /\ UNCHANGED <<chain, pending_transactions, tickets, heap, uuids, clock>>

\* ------------------------------------------------------------ requests
IssueRequests    == [event : Events, owner : Issuees, price : Prices]
TransferRequests == [ticket_id : TicketIds, new_owner : Owners]
RedeemRequests   == [ticket_id : TicketIds]

\* handlers run one at a time, each from its first line to its return
Next ==
    \/ get_chain /\ UNCHANGED calls
    \/ \E now \in time_time(clock) : mine(now) /\ UNCHANGED calls
    \/ \E data \in IssueRequests, now \in time_time(clock) :
          issue_ticket(data, now) /\ UNCHANGED calls
    \/ \E data \in TransferRequests, now \in time_time(clock) :
          transfer_ticket(data, now) /\ UNCHANGED calls
    \/ \E data \in RedeemRequests, now \in time_time(clock) :
          redeem_ticket(data, now) /\ UNCHANGED calls
    \/ \E ticket_id \in TicketIds : ticket_history(ticket_id) /\ UNCHANGED calls
    \/ \E ticket_id \in TicketIds : verify(ticket_id) /\ UNCHANGED calls

Spec == Init /\ [][Next]_vars

\* ------------------------------------------- handlers on several threads
\* The same handlers with the server running them on several threads: a
\* thread may be pre-empted between two statements that call the shared
\* blockchain object.  calls[t].pc names the statement thread t runs next.
\* Fields snap_ref and snap_len of a mine call are not program state: they
\* note the pending list and its length when Block(...) was built.
\* The answers of the handlers are those of the serial handlers above and
\* are not followed here: `response` keeps its value.  The server hands a
\* request to its first free thread.

\* thread t is the first thread that runs no handler
Free(t) ==
    /\ calls[t] = Idle
    /\ \A u \in Threads : calls[u] = Idle => (t = u \/ t = "w1")

\* issue_ticket, lines 132-140: the transaction is built and buffered
c_issue_add(t, data, now) ==
    /\ Free(t)
    /\ Accepted < MaxTx
    /\ \E ticket_id \in uuid4(uuids) :
         LET tx == Transaction("issue",
                               [ticket_id |-> ticket_id, event |-> data.event,
                                owner |-> data.owner, price |-> data.price],
                               None, None, now)
         IN  /\ uuids' = uuids \cup {ticket_id}
             /\ heap' = add_transaction(heap, pending_transactions, tx)
             /\ calls' = [calls EXCEPT ![t] =
                            [pc |-> "issue_record", data |-> data,
                             ticket_id |-> ticket_id]]
    /\ clock' = now
    /\ UNCHANGED <<chain, pending_transactions, tickets, response>>

\* issue_ticket, lines 141-142
c_issue_record(t) ==
    /\ calls[t].pc = "issue_record"
    /\ tickets' = record_ticket(tickets, calls[t].ticket_id, calls[t].data.owner, "valid")
    /\ calls' = [calls EXCEPT ![t] = Idle]
    /\ UNCHANGED <<chain, pending_transactions, heap, uuids, clock, response>>

\* transfer_ticket, lines 147-150: the validity check
c_transfer_check(t, data) ==
    /\ Free(t)
    /\ LET ticket == verify_ticket(tickets, data.ticket_id)
       IN  IF ticket = <<>> \/ ticket[1].status # "valid"
           THEN UNCHANGED calls
           ELSE calls' = [calls EXCEPT ![t] =
                            [pc |-> "transfer_add", data |-> data, ticket |-> ticket[1]]]
    /\ UNCHANGED <<chain, pending_transactions, tickets, heap, uuids, clock, response>>

\* transfer_ticket, lines 151-155
c_transfer_add(t, now) ==
    /\ calls[t].pc = "transfer_add"
    /\ Accepted < MaxTx
    /\ heap' = add_transaction(heap, pending_transactions,
                   Transaction("transfer",
                               [ticket_id |-> calls[t].data.ticket_id,
                                new_owner |-> calls[t].data.new_owner],
                               None, None, now))
    /\ clock' = now
    /\ calls' = [calls EXCEPT ![t].pc = "transfer_record"]
    /\ UNCHANGED <<chain, pending_transactions, tickets, uuids, response>>

\* transfer_ticket, lines 156-157
c_transfer_record(t) ==
    /\ calls[t].pc = "transfer_record"
    /\ tickets' = record_ticket(tickets, calls[t].data.ticket_id,
                                calls[t].data.new_owner, "valid")
    /\ calls' = [calls EXCEPT ![t] = Idle]
    /\ UNCHANGED <<chain, pending_transactions, heap, uuids, clock, response>>

\* redeem_ticket, lines 162-165: the validity check
c_redeem_check(t, data) ==
    /\ Free(t)
    /\ LET ticket == verify_ticket(tickets, data.ticket_id)
       IN  IF ticket = <<>> \/ ticket[1].status # "valid"
           THEN UNCHANGED calls
           ELSE calls' = [calls EXCEPT ![t] =
                            [pc |-> "redeem_add", data |-> data, ticket |-> ticket[1]]]
    /\ UNCHANGED <<chain, pending_transactions, tickets, heap, uuids, clock, response>>

\* redeem_ticket, lines 166-169
c_redeem_add(t, now) ==
    /\ calls[t].pc = "redeem_add"
    /\ Accepted < MaxTx
    /\ heap' = add_transaction(heap, pending_transactions,
                   Transaction("redeem", [ticket_id |-> calls[t].data.ticket_id],
                               None, None, now))
    /\ clock' = now
    /\ calls' = [calls EXCEPT ![t].pc = "redeem_record"]
    /\ UNCHANGED <<chain, pending_transactions, tickets, uuids, response>>

\* mutant: record_ticket is called with its default status
c_redeem_record_default_status(t) ==
    /\ calls[t].pc = "redeem_record"
    /\ tickets' = record_ticket(tickets, calls[t].data.ticket_id,
                                calls[t].ticket.owner, "valid")
    /\ calls' = [calls EXCEPT ![t] = Idle]
    /\ UNCHANGED <<chain, pending_transactions, heap, uuids, clock, response>>

\* redeem_ticket, lines 170-171: the owner is the one read by the check
c_redeem_record(t) ==
    /\ calls[t].pc = "redeem_record"
    /\ tickets' = record_ticket(tickets, calls[t].data.ticket_id,
                                calls[t].ticket.owner, "redeemed")
    /\ calls' = [calls EXCEPT ![t] = Idle]
    /\ UNCHANGED <<chain, pending_transactions, heap, uuids, clock, response>>

\* mutant: the block is built from a copy of the pending list
c_mine_block_copy(t, now) ==
    /\ Free(t)
    /\ IF heap[pending_transactions] = <<>>
       THEN UNCHANGED <<calls, clock, heap>>
       ELSE /\ heap' = Append(heap, heap[pending_transactions])
            /\ calls' = [calls EXCEPT ![t] =
                           [pc |-> "mine_pow",
                            new_block |-> Block(Len(chain), Len(heap) + 1,
                                                compute_hash(heap, chain[Len(chain)]),
                                                now),
                            snap_ref |-> pending_transactions,
                            snap_len |-> Len(heap[pending_transactions])]]
            /\ clock' = now
    /\ UNCHANGED <<chain, pending_transactions, tickets, uuids, response>>

\* Blockchain.mine, lines 75-77: the block refers to the pending list itself
c_mine_block(t, now) ==
    /\ Free(t)
    /\ IF heap[pending_transactions] = <<>>
       THEN UNCHANGED <<calls, clock>>
       ELSE /\ calls' = [calls EXCEPT ![t] =
                           [pc |-> "mine_pow",
                            new_block |-> Block(Len(chain), pending_transactions,
                                                compute_hash(heap, chain[Len(chain)]),
                                                now),
                            snap_ref |-> pending_transactions,
                            snap_len |-> Len(heap[pending_transactions])]]
            /\ clock' = now
    /\ UNCHANGED <<chain, pending_transactions, tickets, heap, uuids, response>>

\* Blockchain.mine, lines 78-79: the search reads the list as it is now
c_mine_pow(t) ==
    /\ calls[t].pc = "mine_pow"
    /\ \E proof \in {proof_of_work(heap, calls[t].new_block)} :
         calls' = [calls EXCEPT ![t].pc = "mine_append",
                                ![t].new_block =
                                    [hash |-> proof.computed_hash] @@ proof.block]
    /\ UNCHANGED <<chain, pending_transactions, tickets, heap, uuids, clock, response>>

\* Blockchain.mine, lines 80-82
c_mine_append(t) ==
    /\ calls[t].pc = "mine_append"
    /\ chain' = Append(chain, calls[t].new_block)
    /\ heap' = Append(heap, <<>>)
    /\ pending_transactions' = Len(heap) + 1
    /\ calls' = [calls EXCEPT ![t] = Idle]
    /\ UNCHANGED <<tickets, uuids, clock, response>>

\* requests arrive while others are being handled; the clients send one
\* POST /mine at a time, and the clock does not tick while they are served
NextConc ==
    \/ \E t \in Threads, data \in IssueRequests, now \in {clock} :
          c_issue_add(t, data, now)
    \/ \E t \in Threads : c_issue_record(t)
    \/ \E t \in Threads, data \in TransferRequests : c_transfer_check(t, data)
    \/ \E t \in Threads, now \in {clock} : c_transfer_add(t, now)
    \/ \E t \in Threads : c_transfer_record(t)
    \/ \E t \in Threads, data \in RedeemRequests : c_redeem_check(t, data)
    \/ \E t \in Threads, now \in {clock} : c_redeem_add(t, now)
    \/ \E t \in Threads : c_redeem_record(t)
    \/ \E t \in Threads, now \in {clock} :
          /\ \A u \in Threads : calls[u].pc \notin {"mine_pow", "mine_append"}
          /\ c_mine_block(t, now)
    \/ \E t \in Threads : c_mine_pow(t)
    \/ \E t \in Threads : c_mine_append(t)

SpecConc == Init /\ [][NextConc]_vars

\* ------------------------------------------------------------- properties
\* contents of the list a block refers to, in heap h
BlockTxs(h, block) == h[block.transactions]

\* every accepted transaction: the blocks in chain order, then the buffer
Ledger ==
    Flatten([i \in 1..Len(chain) |-> BlockTxs(heap, chain[i])])
        \o heap[pending_transactions]

ToDicts(txs) == [j \in 1..Len(txs) |-> to_dict(txs[j])]

\* the step handled request `op` for a ticket that is in the registry and valid
AcceptedStep(op) ==
    /\ response'.op = op
    /\ response'.args.ticket_id \in DOMAIN tickets
    /\ tickets[response'.args.ticket_id].status = "valid"

\* the step handled request `op` for a ticket that is missing or not valid
RejectedStep(op) ==
    /\ response'.op = op
    /\ \/ response'.args.ticket_id \notin DOMAIN tickets
       \/ tickets[response'.args.ticket_id].status # "valid"

\* the step put exactly one transaction of the given type and payload at the
\* end of the buffer and touched no other list
AppendsOne(tx_type, data) ==
    /\ pending_transactions' = pending_transactions
    /\ DOMAIN heap' = DOMAIN heap
    /\ \A r \in DOMAIN heap : r # pending_transactions => heap'[r] = heap[r]
    /\ Len(heap'[pending_transactions]) = Len(heap[pending_transactions]) + 1
    /\ SubSeq(heap'[pending_transactions], 1, Len(heap[pending_transactions]))
         = heap[pending_transactions]
    /\ LET tx == heap'[pending_transactions][Len(heap'[pending_transactions])]
       IN  tx.tx_type = tx_type /\ tx.data = data

\* the step changed the registry entry of id to entry and no other entry
SetsOnly(id, entry) ==
    /\ DOMAIN tickets' = DOMAIN tickets \cup {id}
    /\ tickets'[id] = entry
    /\ \A k \in DOMAIN tickets : k # id => tickets'[k] = tickets[k]

\* C1: a transfer or redeem request for a ticket that is not in the registry,
\* or whose status is not 'valid', answers with the failure signal and leaves
\* the pending buffer, the chain and every registry entry as they were.
C1_RejectedRequestChangesNothing ==
    [][ (RejectedStep("transfer") \/ RejectedStep("redeem"))
        => /\ response'.code = 400
           /\ "error" \in DOMAIN response'.body
           /\ UNCHANGED <<chain, pending_transactions, heap, tickets>> ]_vars

C1_Witness ==
    /\ response.op \in {"transfer", "redeem"}
    /\ response.code = 400
    /\ response.args.ticket_id \in DOMAIN tickets
    /\ tickets[response.args.ticket_id].status = "redeemed"
    /\ Ledger # <<>>

\* C2: once the registry status of a ticket is 'redeemed', every later state
\* keeps that status and the same owner.
C2_RedeemedIsTerminal ==
    [][ \A id \in DOMAIN tickets :
            tickets[id].status = "redeemed"
            => id \in DOMAIN tickets' /\ tickets'[id] = tickets[id] ]_vars

C2_Witness ==
    \E id \in DOMAIN tickets :
        /\ tickets[id].status = "redeemed"
        /\ response.op = "transfer"
        /\ response.args.ticket_id = id
        /\ response.args.new_owner # tickets[id].owner

\* C3: a transfer request for a valid ticket appends exactly one 'transfer'
\* transaction with that ticket id and the new owner to the end of pending,
\* sets the registry owner to the new owner, leaves the status 'valid', and
\* changes no other registry entry and no block of the chain.
C3_TransferEffect ==
    [][ AcceptedStep("transfer")
        => /\ response'.code = 200
           /\ AppendsOne("transfer", [ticket_id |-> response'.args.ticket_id,
                                      new_owner |-> response'.args.new_owner])
           /\ SetsOnly(response'.args.ticket_id,
                       [owner |-> response'.args.new_owner, status |-> "valid"])
           /\ chain' = chain ]_vars

C3_Witness ==
    /\ response.op = "transfer"
    /\ response.code = 200
    /\ Len(chain) > 1
    /\ heap[pending_transactions] # <<>>
    /\ Cardinality(DOMAIN tickets) > 1
    /\ tickets[response.args.ticket_id].owner = response.args.new_owner

\* C4: a redeem request for a valid ticket appends exactly one 'redeem'
\* transaction for that ticket id to the end of pending, sets the status to
\* 'redeemed', keeps the owner the ticket had before the call, and changes no
\* other registry entry and no block of the chain.
C4_RedeemEffect ==
    [][ AcceptedStep("redeem")
        => /\ response'.code = 200
           /\ AppendsOne("redeem", [ticket_id |-> response'.args.ticket_id])
           /\ SetsOnly(response'.args.ticket_id,
                       [owner |-> tickets[response'.args.ticket_id].owner,
                        status |-> "redeemed"])
           /\ chain' = chain ]_vars

C4_Witness ==
    /\ response.op = "redeem"
    /\ response.code = 200
    /\ Len(chain) > 1
    /\ Cardinality(DOMAIN tickets) > 1
    /\ tickets[response.args.ticket_id].status = "redeemed"

\* C5: an issue request always succeeds, uses a ticket id that is not yet in
\* the registry, appends one 'issue' transaction to pending and registers
\* {owner, valid} at once; a verify of that id right after the call, with no
\* mine in between, reports status 'valid' and the given owner.
C5_IssueEffect ==
    /\ [][ response'.op = "issue"
           => /\ response'.code = 201
              /\ response'.body.ticket_id \notin DOMAIN tickets
              /\ AppendsOne("issue", [ticket_id |-> response'.body.ticket_id,
                                      event |-> response'.args.event,
                                      owner |-> response'.args.owner,
                                      price |-> response'.args.price])
              /\ SetsOnly(response'.body.ticket_id,
                          [owner |-> response'.args.owner, status |-> "valid"])
              /\ chain' = chain ]_vars
    /\ [][ (/\ response.op = "issue"
            /\ response'.op = "verify"
            /\ response'.args.ticket_id = response.body.ticket_id)
           => /\ response'.code = 200
              /\ response'.body = [valid |-> TRUE,
                                   ticket |-> [owner |-> response.args.owner,
                                               status |-> "valid"]] ]_vars

C5_Witness ==
    /\ response.op = "issue"
    /\ response.code = 201
    /\ Cardinality(DOMAIN tickets) > 1
    /\ tickets[response.body.ticket_id]
         = [owner |-> response.args.owner, status |-> "valid"]
    /\ heap[pending_transactions] # <<>>

\* the ledger holds exactly issue("concert","alice",10), transfer(id,"bob"),
\* redeem(id), in that order, and nothing else
Scenario(id) ==
    /\ Len(Ledger) = 3
    /\ Ledger[1].tx_type = "issue"
    /\ Ledger[1].data = [ticket_id |-> id, event |-> "concert",
                         owner |-> "alice", price |-> 10]
    /\ Ledger[2].tx_type = "transfer"
    /\ Ledger[2].data = [ticket_id |-> id, new_owner |-> "bob"]
    /\ Ledger[3].tx_type = "redeem"
    /\ Ledger[3].data = [ticket_id |-> id]

\* ticket_history has just answered for the ticket of the scenario
HistoryOfScenario ==
    /\ response.op = "ticket_history"
    /\ Scenario(response.args.ticket_id)

\* C6 (as claimed): after issue("concert","alice",10), transfer(id,"bob"),
\* redeem(id) on a fresh chain, ticketHistory(id) returns exactly three
\* transactions in chain order: issue, transfer, redeem.
C6_HistoryAfterSequence ==
    HistoryOfScenario
    => /\ Len(response.body) = 3
       /\ [j \in 1..3 |-> response.body[j].tx_type] = <<"issue", "transfer", "redeem">>

\* C6 (amended): after that sequence ticketHistory(id) returns the
\* transactions of the sequence that a mine() has put in a block, in chain
\* order: all three (issue, transfer, redeem) once pending is empty, and
\* none while no block has been mined.
C6_HistoryAfterSequenceMined ==
    HistoryOfScenario
    => /\ response.body = ToDicts(SubSeq(Ledger, 1, 3 - Len(heap[pending_transactions])))
       /\ heap[pending_transactions] = <<>>
            => [j \in 1..3 |-> response.body[j].tx_type] = <<"issue", "transfer", "redeem">>
       /\ Len(chain) = 1 => response.body = <<>>

C6_Witness ==
    /\ HistoryOfScenario
    /\ heap[pending_transactions] = <<>>
    /\ Len(chain) = 4
    /\ Len(response.body) = 3

\* C7: a mine() called with a non-empty pending buffer makes the chain one
\* block longer, leaves pending empty, returns the block that is now the tip
\* and leaves the ticket registry unchanged.
C7_MineEffect ==
    [][ (response'.op = "mine" /\ heap[pending_transactions] # <<>>)
        => /\ Len(chain') = Len(chain) + 1
           /\ heap'[pending_transactions'] = <<>>
           /\ LET tip == chain'[Len(chain')]
              IN  response'.body = [index |-> tip.index,
                                    transactions |-> ToDicts(BlockTxs(heap', tip)),
                                    hash |-> tip.hash]
           /\ tickets' = tickets ]_vars

C7_Witness ==
    /\ response.op = "mine"
    /\ "index" \in DOMAIN response.body
    /\ response.body.index = 2
    /\ Len(response.body.transactions) = 2
    /\ heap[pending_transactions] = <<>>
    /\ tickets # <<>>

\* C8: a mine() called with an empty pending buffer returns the no-op signal
\* and leaves the chain, pending and the registry unchanged; no block with an
\* empty transaction list is ever appended after genesis.
C8_EmptyMineIsNoOp ==
    /\ [][ (response'.op = "mine" /\ heap[pending_transactions] = <<>>)
           => /\ response'.code = 200
              /\ response'.body = [message |-> "No transactions to mine"]
              /\ UNCHANGED <<chain, heap, pending_transactions, tickets>> ]_vars
    /\ [](\A i \in 2..Len(chain) : BlockTxs(heap, chain[i]) # <<>>)

C8_Witness ==
    /\ response.op = "mine"
    /\ response.body = [message |-> "No transactions to mine"]
    /\ heap[pending_transactions] = <<>>
    /\ Len(chain) > 1

\* C9: every block appended by mine() has a stored hash with at least
\* `difficulty` leading zero hex characters, equal to compute_hash() of the
\* block at its final nonce.
C9_SealedHash ==
    \A i \in 2..Len(chain) :
        /\ startswith_zeros(chain[i].hash, difficulty)
        /\ Len(chain[i].hash) = DigestLen
        /\ chain[i].hash = compute_hash(heap, chain[i])

C9_Witness ==
    /\ Len(chain) > 2
    /\ \E i \in 2..Len(chain) : chain[i].nonce > 0
    /\ chain[2].hash # chain[3].hash

\* C10: the ledger is append-only: every operation leaves the chain it found
\* as a prefix of the chain it leaves, and every block already in the chain
\* keeps its index, transaction list, prev_hash, nonce and stored hash; a
\* transaction submitted after a mine never shows up in an appended block.
C10_AppendOnly ==
    [][ /\ Len(chain') >= Len(chain)
        /\ \A i \in 1..Len(chain) :
              /\ chain'[i] = chain[i]
              /\ BlockTxs(heap', chain'[i]) = BlockTxs(heap, chain[i]) ]_vars

C10_Witness ==
    /\ Len(chain) > 2
    /\ heap[pending_transactions] # <<>>
    /\ response.op \in {"issue", "transfer", "redeem"}
    /\ response.code \in {200, 201}

\* the transactions in the blocks of the chain, in chain order
Mined == Flatten([i \in 1..Len(chain) |-> BlockTxs(heap, chain[i])])

\* C11: in every reachable state the prev_hash of each block after genesis is
\* the hash of the block before it (the value its compute_hash() gives, which
\* is also its stored hash), and the prev_hash of genesis is "0".
C11_HashLinkage ==
    /\ chain[1].prev_hash = <<0>>
    /\ \A i \in 2..Len(chain) :
          /\ chain[i].prev_hash = compute_hash(heap, chain[i - 1])
          /\ chain[i].prev_hash = chain[i - 1].hash

C11_Witness ==
    /\ Len(chain) > 2
    /\ chain[3].prev_hash # chain[2].prev_hash
    /\ chain[2].prev_hash # <<0>>

\* C12: ticketHistory(id) returns exactly the transactions of the blocks of
\* the chain whose payload ticket id is id, by block position and then by
\* position in the block; pending transactions are not in the result, and
\* the call changes no state.
C12_HistoryIsMinedSelection ==
    /\ [](response.op = "ticket_history"
          => response.body =
               ToDicts(SelectSeq(Mined,
                   LAMBDA t : t.data.ticket_id = response.args.ticket_id)))
    /\ [][ response'.op = "ticket_history"
           => UNCHANGED <<chain, pending_transactions, heap, tickets, uuids, clock>> ]_vars

C12_Witness ==
    /\ response.op = "ticket_history"
    /\ Len(response.body) > 0
    /\ Len(response.body) < Len(Mined)
    /\ \E j \in 1..Len(heap[pending_transactions]) :
          heap[pending_transactions][j].data.ticket_id = response.args.ticket_id

\* C13: the block appended by mine() holds exactly the transactions that
\* were pending when mine() was called, in the same order; the blocks in
\* chain order followed by pending always list every accepted transaction
\* once, in submission order.
C13_LedgerIsSubmissionOrder ==
    [][ /\ (response'.op = "mine" /\ heap[pending_transactions] # <<>>)
           => BlockTxs(heap', chain'[Len(chain')]) = heap[pending_transactions]
        /\ \/ Ledger' = Ledger
           \/ /\ response'.op \in {"issue", "transfer", "redeem"}
              /\ response'.code \in {200, 201}
              /\ Len(Ledger') = Len(Ledger) + 1
              /\ SubSeq(Ledger', 1, Len(Ledger)) = Ledger
              /\ Ledger'[Len(Ledger')].tx_type = response'.op ]_vars

C13_Witness ==
    /\ Len(chain) = 3
    /\ Len(BlockTxs(heap, chain[2])) = 2
    /\ BlockTxs(heap, chain[2])[1].tx_type = "issue"
    /\ BlockTxs(heap, chain[2])[2].tx_type # "issue"
    /\ response.op = "mine"

\* C14: in every reachable state the chain is not empty, its first block is
\* the genesis block (index 0, no transactions, prev_hash "0", stored hash
\* equal to its compute_hash(), whatever its leading characters), and the
\* block at position i has index i.
C14_GenesisAndIndices ==
    /\ Len(chain) >= 1
    /\ chain[1].index = 0
    /\ BlockTxs(heap, chain[1]) = <<>>
    /\ chain[1].prev_hash = <<0>>
    /\ chain[1].hash = compute_hash(heap, chain[1])
    /\ \A i \in 1..Len(chain) : chain[i].index = i - 1

C14_Witness ==
    /\ Len(chain) > 3
    /\ ~startswith_zeros(chain[1].hash, difficulty)

\* C18: with handlers run one at a time the stored hash of every block,
\* genesis included, equals its compute_hash(); so the hash get_chain reports
\* for a block is the hash mine reported for it, and the prev_hash of each
\* block is the stored hash of the block before it.
C18_StoredHashIsLiveHash ==
    /\ \A i \in 1..Len(chain) : chain[i].hash = compute_hash(heap, chain[i])
    /\ \A i \in 2..Len(chain) : chain[i].prev_hash = chain[i - 1].hash
    /\ response.op = "get_chain"
         => /\ Len(response.body) = Len(chain)
            /\ \A i \in 1..Len(chain) : response.body[i].hash = chain[i].hash
    /\ (response.op = "mine" /\ "hash" \in DOMAIN response.body)
         => /\ response.body.hash = chain[Len(chain)].hash
            /\ response.body.hash = compute_hash(heap, chain[Len(chain)])

C18_Witness ==
    /\ response.op = "get_chain"
    /\ Len(response.body) > 2
    /\ response.body[3].hash = chain[3].hash
    /\ chain[3].nonce > 0
    /\ heap[pending_transactions] # <<>>

\* the transactions of the ledger that carry ticket id `id`
TxsOf(id) == SelectSeq(Ledger, LAMBDA t : t.data.ticket_id = id)

OfType(txs, tx_type) == SelectSeq(txs, LAMBDA t : t.tx_type = tx_type)

\* the registry entry the ledger gives for a ticket that has been issued
Projected(id) ==
    [owner  |-> IF OfType(TxsOf(id), "transfer") = <<>>
                THEN OfType(TxsOf(id), "issue")[1].data.owner
                ELSE LET tr == OfType(TxsOf(id), "transfer")
                     IN  tr[Len(tr)].data.new_owner,
     status |-> IF OfType(TxsOf(id), "redeem") = <<>> THEN "valid" ELSE "redeemed"]

\* C19: with handlers run one at a time the registry is the projection of
\* the ledger: its keys are the ticket ids with an issue transaction in the
\* ledger (blocks, then pending), no entry is ever deleted, the owner of a
\* key is the new_owner of its last transfer (the issue owner if there is
\* none) and its status is 'redeemed' exactly when the ledger holds a redeem
\* for it.
C19_RegistryIsProjection ==
    /\ [](/\ DOMAIN tickets = {id \in TicketIds : OfType(TxsOf(id), "issue") # <<>>}
          /\ \A id \in DOMAIN tickets : tickets[id] = Projected(id))
    /\ [][DOMAIN tickets \subseteq DOMAIN tickets']_vars

C19_Witness ==
    /\ Cardinality(DOMAIN tickets) = 1
    /\ \E id \in DOMAIN tickets : tickets[id] = [owner |-> "bob", status |-> "redeemed"]
    /\ Len(chain) > 1
    /\ heap[pending_transactions] # <<>>

\* C20: with handlers run one at a time the ledger transactions of each
\* ticket id have the shape issue, transfer*, redeem?: one issue, which comes
\* first, at most one redeem, which comes last, and no transfer after a
\* redeem.
C20_LedgerShape ==
    \A id \in TicketIds :
        LET txs == TxsOf(id)
        IN  txs # <<>>
            => /\ txs[1].tx_type = "issue"
               /\ \A j \in 2..Len(txs) : txs[j].tx_type \in {"transfer", "redeem"}
               /\ \A j \in 1..Len(txs) : txs[j].tx_type = "redeem" => j = Len(txs)

C20_Witness ==
    /\ Len(TxsOf(1)) = 3
    /\ TxsOf(1)[2].tx_type = "transfer"
    /\ TxsOf(1)[3].tx_type = "redeem"
    /\ response.op = "redeem"
    /\ response.code = 400

\* ------------------------------------------- the search, step by step
\* Handlers run one at a time, and POST /mine is followed through the loop of
\* proof_of_work one test of the digest at a time.  calls[t] holds the block
\* being sealed and the digest last computed.  The search gives up no nonce:
\* a search that has reached MaxNonce stays where it is, as one that goes on.

\* mutant: the search starts from nonce 1
p_mine_block_nonce_one(t, now) ==
    /\ \A u \in Threads : calls[u] = Idle
    /\ Free(t)
    /\ IF heap[pending_transactions] = <<>>
       THEN /\ response' = [op |-> "mine", args |-> <<>>, code |-> 200,
                            body |-> [message |-> "No transactions to mine"]]
            /\ UNCHANGED <<calls, clock>>
       ELSE LET new_block == Block(Len(chain), pending_transactions,
                                   compute_hash(heap, chain[Len(chain)]), now)
                first     == [new_block EXCEPT !.nonce = 1]
            IN  /\ calls' = [calls EXCEPT ![t] =
                               [pc |-> "pow_while", new_block |-> first,
                                computed_hash |-> compute_hash(heap, first)]]
                /\ clock' = now
                /\ UNCHANGED response
    /\ UNCHANGED <<chain, pending_transactions, tickets, heap, uuids>>

\* Blockchain.mine, lines 75-78, and proof_of_work, lines 85-86
p_mine_block(t, now) ==
    /\ \A u \in Threads : calls[u] = Idle
    /\ Free(t)
    /\ IF heap[pending_transactions] = <<>>
       THEN /\ response' = [op |-> "mine", args |-> <<>>, code |-> 200,
                            body |-> [message |-> "No transactions to mine"]]
            /\ UNCHANGED <<calls, clock>>
       ELSE LET new_block == Block(Len(chain), pending_transactions,
                                   compute_hash(heap, chain[Len(chain)]), now)
                first     == [new_block EXCEPT !.nonce = 0]
            IN  /\ calls' = [calls EXCEPT ![t] =
                               [pc |-> "pow_while", new_block |-> first,
                                computed_hash |-> compute_hash(heap, first)]]
                /\ clock' = now
                /\ UNCHANGED response
    /\ UNCHANGED <<chain, pending_transactions, tickets, heap, uuids>>

\* proof_of_work, lines 87-89: the digest fails the test, the next nonce
p_pow_while(t) ==
    /\ calls[t].pc = "pow_while"
    /\ ~startswith_zeros(calls[t].computed_hash, difficulty)
    /\ calls[t].new_block.nonce < MaxNonce
    /\ LET next == [calls[t].new_block EXCEPT !.nonce = @ + 1]
       IN  calls' = [calls EXCEPT ![t].new_block = next,
                                  ![t].computed_hash = compute_hash(heap, next)]
    /\ UNCHANGED <<chain, pending_transactions, tickets, heap, uuids, clock, response>>

\* proof_of_work, lines 87 and 90, Blockchain.mine, lines 79-82, and the
\* answer of the route, lines 122-127
p_mine_return(t) ==
    /\ calls[t].pc = "pow_while"
    /\ startswith_zeros(calls[t].computed_hash, difficulty)
    /\ LET sealed == [hash |-> calls[t].computed_hash] @@ calls[t].new_block
       IN  /\ chain' = Append(chain, sealed)
           /\ response' = [op |-> "mine", args |-> <<>>, code |-> 200,
                           body |-> [index |-> sealed.index,
                                     transactions |-> ToDicts(BlockTxs(heap, sealed)),
                                     hash |-> sealed.hash]]
    /\ heap' = Append(heap, <<>>)
    /\ pending_transactions' = Len(heap) + 1
    /\ calls' = [calls EXCEPT ![t] = Idle]
    /\ UNCHANGED <<tickets, uuids, clock>>

\* a handler starts when no handler runs
Serial(A) == (\A u \in Threads : calls[u] = Idle) /\ A /\ UNCHANGED calls

NextPow ==
    \/ \E data \in IssueRequests, now \in time_time(clock) :
          Serial(issue_ticket(data, now))
    \/ \E data \in TransferRequests, now \in time_time(clock) :
          Serial(transfer_ticket(data, now))
    \/ \E data \in RedeemRequests, now \in time_time(clock) :
          Serial(redeem_ticket(data, now))
    \/ \E t \in Threads, now \in time_time(clock) : p_mine_block(t, now)
    \/ \E t \in Threads : p_pow_while(t)
    \/ \E t \in Threads : p_mine_return(t)

\* a thread in the loop has a step to take: its digest passes, or there is a
\* next nonce to try
CanSearch ==
    \E t \in Threads :
        /\ calls[t].pc = "pow_while"
        /\ \/ startswith_zeros(calls[t].computed_hash, difficulty)
           \/ calls[t].new_block.nonce < MaxNonce

\* a thread in the loop takes a step
Searches == \E t \in Threads : calls[t].pc = "pow_while" /\ calls'[t] # calls[t]

\* the thread that runs the search is scheduled again and again: weak
\* fairness of the steps of the loop, whose enabling condition is CanSearch
SpecPow ==
    /\ Init
    /\ [][NextPow]_vars
    /\ ([]<>(~CanSearch) \/ []<><<Searches>>_vars)

\* thread t is inside the loop of proof_of_work
Searching(t) == calls[t].pc = "pow_while"

\* the digest of the block with nonce n has `difficulty` leading zeros
Passes(h, block, n) ==
    startswith_zeros(compute_hash(h, [block EXCEPT !.nonce = n]), difficulty)

\* no nonce in 0..MaxNonce gives the block a digest that passes; the part of
\* the digest that does not depend on the nonce is computed once
NoNoncePasses(h, block) ==
    \A prefix \in {sha256(0, block_string(h, block))} :
        \A n \in 0..MaxNonce :
            ~startswith_zeros(compute_hash_at(prefix, n), difficulty)

\* C15: proof-of-work tries the nonces 0, 1, 2, ... in order, nonce 0 before
\* any increment, and gives up none.  mine() returns only on a nonce whose
\* digest has the leading zeros, the sealed nonce is the smallest such nonce,
\* and if some nonce passes the search ends; while the search runs, and for
\* ever if no nonce passes, mine() does not return and the chain and the
\* pending list are unchanged.
C15_SmallestNonceOrNoReturn ==
    /\ [][\A t \in Threads :
            /\ ~Searching(t) /\ Searching(t)'
               => /\ calls'[t].new_block.nonce = 0
                  /\ calls'[t].computed_hash = compute_hash(heap, calls'[t].new_block)
                  /\ UNCHANGED <<chain, pending_transactions, heap>>
            /\ Searching(t) /\ Searching(t)'
               => /\ UNCHANGED <<chain, pending_transactions, heap>>
                  /\ calls'[t] # calls[t]
                     => /\ ~Passes(heap, calls[t].new_block, calls[t].new_block.nonce)
                        /\ calls'[t].new_block =
                              [calls[t].new_block EXCEPT !.nonce = @ + 1]
            /\ Searching(t) /\ ~Searching(t)'
               => LET tip == chain'[Len(chain')]
                  IN  /\ chain' = Append(chain, tip)
                      /\ tip.hash = compute_hash(heap, tip)
                      /\ tip.nonce = calls[t].new_block.nonce
                      /\ Passes(heap, tip, tip.nonce)
                      /\ \A m \in 0..(tip.nonce - 1) : ~Passes(heap, tip, m)
            /\ Searching(t) /\ NoNoncePasses(heap, calls[t].new_block)
               => Searching(t)' /\ UNCHANGED <<chain, pending_transactions, heap>>]_vars
    /\ \A t \in Threads :
          (Searching(t) /\ ~NoNoncePasses(heap, calls[t].new_block)) ~> ~Searching(t)

\* one search has sealed a block on a nonce above 0; another has tried every
\* nonce up to MaxNonce and none passes
C15_Witness ==
    /\ Len(chain) = 2
    /\ chain[2].nonce > 0
    /\ \E t \in Threads :
          /\ Searching(t)
          /\ calls[t].new_block.nonce = MaxNonce
          /\ NoNoncePasses(heap, calls[t].new_block)

\* ------------------------------------------------- handlers on two threads
\* thread t runs the last two statements of Blockchain.mine in this step
MineReturns(t) == calls[t].pc = "mine_append" /\ calls'[t] = Idle

\* the transactions buffered after thread t built its block
Late(t) ==
    SubSeq(heap[calls[t].snap_ref], calls[t].snap_len + 1,
           Len(heap[calls[t].snap_ref]))

\* C16 as stated: a transaction that add_transaction buffers after mine()
\* built the new block from pending and before mine() resets pending is lost:
\* when mine() returns, the list that holds it is neither the pending list
\* nor the transaction list of any block.
C16_LateTransactionLost ==
    [][\A t \in Threads :
          MineReturns(t) /\ Late(t) # <<>>
          => /\ pending_transactions' # calls[t].snap_ref
             /\ \A i \in 1..Len(chain') :
                    chain'[i].transactions # calls[t].snap_ref]_vars

\* C16 amended: a transaction that add_transaction buffers after mine()
\* built the new block and before mine() resets pending is not lost: the
\* block holds the pending list itself, so when mine() returns the appended
\* block's transaction list is the snapshot followed by the late
\* transactions, pending is a new empty list, and the block keeps the hash
\* its search returned.
C16_LateTransactionSealed ==
    [][\A t \in Threads :
          MineReturns(t)
          => LET tip == chain'[Len(chain')]
             IN  /\ Len(chain') = Len(chain) + 1
                 /\ BlockTxs(heap', tip) = heap[calls[t].snap_ref]
                 /\ Len(BlockTxs(heap', tip)) = calls[t].snap_len + Len(Late(t))
                 /\ heap'[pending_transactions'] = <<>>
                 /\ pending_transactions' # tip.transactions
                 /\ tip.hash = calls[t].new_block.hash]_vars

\* mine() has returned a block that holds a transaction buffered after its
\* search: the stored hash is not the hash of the block's contents
C16_Witness ==
    /\ \A t \in Threads : calls[t] = Idle
    /\ Len(chain) = 2
    /\ Len(BlockTxs(heap, chain[2])) = 2
    /\ chain[2].hash # compute_hash(heap, chain[2])
    /\ heap[pending_transactions] = <<>>

\* the handlers that have passed their check for ticket id, or have buffered
\* its issue, and have not returned
InFlight(id) ==
    {t \in Threads :
        \/ calls[t].pc = "issue_record" /\ calls[t].ticket_id = id
        \/ /\ calls[t].pc \in {"transfer_add", "transfer_record",
                               "redeem_add", "redeem_record"}
           /\ calls[t].data.ticket_id = id}

\* issue, transfer*, redeem?
Shape(txs) ==
    txs # <<>>
    => /\ txs[1].tx_type = "issue"
       /\ \A j \in 2..Len(txs) : txs[j].tx_type \in {"transfer", "redeem"}
       /\ \A j \in 1..Len(txs) : txs[j].tx_type = "redeem" => j = Len(txs)

\* what verify_ticket gives when the registry has recorded all of txs
ProjectedOf(txs) ==
    IF txs = <<>> THEN <<>>
    ELSE <<[owner  |-> IF OfType(txs, "transfer") = <<>>
                       THEN txs[1].data.owner
                       ELSE LET tr == OfType(txs, "transfer")
                            IN  tr[Len(tr)].data.new_owner,
            status |-> IF OfType(txs, "redeem") = <<>> THEN "valid" ELSE "redeemed"]>>

AllButLast(txs) == SubSeq(txs, 1, Len(txs) - 1)

\* at most one handler is at work on ticket id, the ledger of the ticket has
\* the shape issue, transfer*, redeem?, and the registry agrees with it up to
\* the one record step that handler has still to run
\* ledger is the value of Ledger, computed once for all tickets
OrderlyIn(ledger, id) ==
    \E txs \in {SelectSeq(ledger, LAMBDA tx : tx.data.ticket_id = id)},
       reg \in {verify_ticket(tickets, id)} :
        /\ Cardinality(InFlight(id)) <= 1
        /\ Shape(txs)
        /\ \A t \in InFlight(id) :
              CASE calls[t].pc = "issue_record" ->
                     /\ Len(txs) = 1
                     /\ reg = <<>>
                [] calls[t].pc \in {"transfer_add", "redeem_add"} ->
                     /\ reg = ProjectedOf(txs)
                     /\ reg = <<calls[t].ticket>>
                     /\ calls[t].ticket.status = "valid"
                [] calls[t].pc = "transfer_record" ->
                     /\ txs[Len(txs)].tx_type = "transfer"
                     /\ txs[Len(txs)].data.new_owner = calls[t].data.new_owner
                     /\ reg = ProjectedOf(AllButLast(txs))
                [] calls[t].pc = "redeem_record" ->
                     /\ txs[Len(txs)].tx_type = "redeem"
                     /\ reg = ProjectedOf(AllButLast(txs))
                     /\ reg = <<calls[t].ticket>>
        /\ InFlight(id) = {} => reg = ProjectedOf(txs)

\* C17: the check (verify_ticket) and the record (add_transaction,
\* record_ticket) of transfer and redeem are separate steps.  As long as no
\* handler passes its check for a ticket while another handler is at work on
\* that ticket, the ledger of the ticket keeps the shape issue, transfer*,
\* redeem? and the registry follows it; two redeem transactions for one
\* ticket, or a transfer after its redeem, arise only after two handlers
\* have overlapped on it, and they do arise then.
C17_UnsafeOnlyWhenInterleaved ==
    [][\E before \in {Ledger} : \E after \in {Ledger'} :
          \A id \in TicketIds :
              Cardinality(InFlight(id)') <= 1 /\ OrderlyIn(before, id)
              => OrderlyIn(after, id)']_vars

\* two handlers overlapped on ticket 1 and both buffered a redeem for it
C17_Witness ==
    /\ Len(OfType(TxsOf(1), "redeem")) = 2
    /\ \A t \in Threads : calls[t] = Idle
    /\ tickets[1].status = "redeemed"

====
